---------------------------- MODULE Spec2Model ----------------------------
(***************************************************************************)
(* taw: a filesystem entry finder (src/src/main.rs, src/src/args.rs).      *)
(* main() parses the arguments, transforms them, walks the origin and, for *)
(* every entry, filters it by type, matches its name and its text and      *)
(* prints the highlighted results.                                         *)
(*                                                                         *)
(* A string is a sequence of tokens.  A token is one character of the      *)
(* entry ("a", "A", "b", "\n", ".", "/", "w", "d"), a decimal number       *)
(* (a line label), a message, or a style marker written by the colored     *)
(* crate around a styled slice.  Offsets are 0-based as in Rust:           *)
(* s.get(i..j) is SubSeq(s, i + 1, j).                                     *)
(***************************************************************************)
EXTENDS Integers, Sequences, FiniteSets, TLC

VARIABLES
    args,          \* the Arguments structure (args.rs), as transformed by main
    pc,            \* position of main: "start", "walk", "body", "done", "failed"
    walker,        \* the items the WalkDir iterator has yielded, and how many are left
    entry,         \* the item bound by the for loop (dir_entry_result)
    verdict,       \* the exit the last loop body took
    entries_list,  \* main.rs:70
    stdout,        \* the println! calls made so far, in order
    fs             \* the tree below the origin: which one, and how much of it is walked

vars == <<args, pc, walker, entry, verdict, entries_list, stdout, fs>>

(***************************************************************************)
(* Bounds of the model.                                                    *)
(***************************************************************************)
\* number of entries below the origin in a walk of the specification Spec
MaxEntries == 2
\* longest base name in a walk of the specification SpecRender
MaxNameLen == 2
\* longest file content in a walk of the specification SpecRender
MaxTextLen == 3

Letters == {"a", "A", "b"}

RECURSIVE SeqsUpTo(_, _)
SeqsUpTo(S, k) ==
    IF k = 0 THEN {<<>>}
    ELSE LET shorter == SeqsUpTo(S, k - 1)
         IN  shorter \cup {Append(s, c) : s \in shorter, c \in S}

Slice(s, i, j) == SubSeq(s, i + 1, j)

SliceFrom(s, i) == SubSeq(s, i + 1, Len(s))

RECURSIVE Join(_, _)
Join(ss, sep) ==
    IF ss = <<>> THEN <<>>
    ELSE IF Len(ss) = 1 THEN Head(ss)
    ELSE Head(ss) \o <<sep>> \o Join(Tail(ss), sep)

(***************************************************************************)
(* Patterns (regex::Regex).  A pattern is a sequence of atoms, each one    *)
(* character, possibly starred (greedy), with the case-insensitive flag    *)
(* that the "(?i)" prefix sets.                                            *)
(***************************************************************************)
Atom(c, starred) == [c |-> c, star |-> starred]

Pattern(atoms) == [ci |-> FALSE, atoms |-> atoms]

Fold(c) == IF c = "A" THEN "a" ELSE IF c = "B" THEN "b" ELSE c

CharMatch(ci, pc_, c) == IF ci THEN Fold(pc_) = Fold(c) ELSE pc_ = c

\* "(?i)" + pattern, recompiled
CaseInsensitive(p) == [p EXCEPT !.ci = TRUE]

Max(S) == CHOOSE x \in S : \A y \in S : y <= x

RECURSIVE RunLen(_, _, _, _)
RunLen(ci, c, s, i) ==
    IF i < Len(s) /\ CharMatch(ci, c, s[i + 1]) THEN 1 + RunLen(ci, c, s, i + 1) ELSE 0

\* the end of the preferred (leftmost-first, greedy) match of atoms k.. of p
\* that starts at offset i of s, or -1
RECURSIVE MatchEnd(_, _, _, _)
MatchEnd(p, k, s, i) ==
    IF k > Len(p.atoms) THEN i
    ELSE LET a == p.atoms[k]
         IN  IF a.star
             THEN LET ok == {n \in 0..RunLen(p.ci, a.c, s, i) :
                                 MatchEnd(p, k + 1, s, i + n) # -1}
                  IN  IF ok = {} THEN -1 ELSE MatchEnd(p, k + 1, s, i + Max(ok))
             ELSE IF i < Len(s) /\ CharMatch(p.ci, a.c, s[i + 1])
                  THEN MatchEnd(p, k + 1, s, i + 1)
                  ELSE -1

\* the leftmost match that starts at or after offset from: <<start, end>> or <<>>
RECURSIVE FindAt(_, _, _)
FindAt(p, s, from) ==
    IF from > Len(s) THEN <<>>
    ELSE LET e == MatchEnd(p, 1, s, from)
         IN  IF e # -1 THEN <<from, e>> ELSE FindAt(p, s, from + 1)

\* Regex::captures_iter: the successive non-overlapping matches <<start, end>>.
\* An empty match that ends where the previous match ended is skipped, and the
\* search resumes one character after an empty match.
RECURSIVE CapturesFrom(_, _, _, _)
CapturesFrom(p, s, last_end, last_match) ==
    LET m == FindAt(p, s, last_end)
    IN  IF m = <<>> THEN <<>>
        ELSE IF m[1] = m[2]
             THEN IF m[2] = last_match
                  THEN CapturesFrom(p, s, m[2] + 1, last_match)
                  ELSE <<m>> \o CapturesFrom(p, s, m[2] + 1, m[2])
             ELSE <<m>> \o CapturesFrom(p, s, m[2], m[2])

captures_iter(p, s) == CapturesFrom(p, s, 0, -1)

(***************************************************************************)
(* Styling (the colored crate): a styled slice is the slice between the    *)
(* markers of its style.                                                   *)
(***************************************************************************)
Markers == {"<hl>", "</hl>", "<dim>", "</dim>", "<b>", "</b>", "<warn>", "</warn>",
            "<fail>", "</fail>"}

\* .green().bold().underline()
Highlighted(s) == <<"<hl>">> \o s \o <<"</hl>">>

\* .dimmed().italic()
Dimmed(s) == <<"<dim>">> \o s \o <<"</dim>">>

\* .bold()
Bold(s) == <<"<b>">> \o s \o <<"</b>">>


\* .yellow()
Yellow(s) == <<"<warn>">> \o s \o <<"</warn>">>

\* .red().bold()
Red(s) == <<"<fail>">> \o s \o <<"</fail>">>

(***************************************************************************)
(* Options and entries.  Option<T> is a sequence of length at most one.    *)
(* An entry is what the walker yields: its path (to_string_lossy), its     *)
(* parent path, its base name (a string, not decodable, or absent), what   *)
(* the filesystem says it is, and what read() and String::from_utf8 give.  *)
(***************************************************************************)
Some(x) == <<x>>

NoneOpt == <<>>

Lossy == "?"

EntryOf(path, parent, name_kind, name, kind, content_kind, content) ==
    [path |-> path, parent |-> parent, name_kind |-> name_kind, name |-> name,
     kind |-> kind, content_kind |-> content_kind, content |-> content]

\* Path::join: the entry named name (or with a name that is not UTF-8) in dir
Child(dir, name_kind, name, kind, content_kind, content) ==
    EntryOf(dir \o <<"/">> \o (IF name_kind = "str" THEN name ELSE <<Lossy>>),
            Some(dir), name_kind, name, kind, content_kind, content)

\* an Err item of the walker
ErrItem == EntryOf(<<>>, NoneOpt, "none", <<>>, "err", "read_err", <<>>)

is_file(e) == e.kind = "file"

is_dir(e) == e.kind = "dir"

\* str::lines: the lines of a decoded content, without their line endings;
\* a final line ending opens no further line
RECURSIVE lines(_)
lines(s) ==
    IF s = <<>> THEN <<>>
    ELSE IF \E i \in 1..Len(s) : s[i] = "\n"
         THEN LET i == CHOOSE i \in 1..Len(s) :
                           s[i] = "\n" /\ \A j \in 1..(i - 1) : s[j] # "\n"
              IN  <<SubSeq(s, 1, i - 1)>> \o lines(SubSeq(s, i + 1, Len(s)))
         ELSE <<s>>

(***************************************************************************)
(* The loop body, main.rs:72-195.                                          *)
(***************************************************************************)
\* the entry is compared with the origin as given, not as canonicalized
OriginSkipped_AsGiven(a, e) == a.origin.kind = "dir" /\ e.path = <<".">>

\* main.rs:76
OriginSkipped(a, e) == a.origin.kind = "dir" /\ e.path = a.origin.path

\* main.rs:77-80
TypeFiltered(a, e) ==
    /\ ~(~a.directories /\ ~a.files)
    /\ \/ is_file(e) /\ ~a.files
       \/ is_dir(e) /\ ~a.directories

\* the warning is printed whether warnings are enabled or not
Warned_Always(a, out, message, e) ==
    Append(out, [kind |-> "warn",
                 s |-> Yellow(<<message, " ", "\"">> \o e.path \o <<"\"">>)])

\* main.rs:24-36: the warning printed for an entry, when warnings are enabled
\* (main.rs reads args.warnings; args.rs:40-41 declares the flag as debug)
Warned(a, out, message, e) ==
    IF a.warnings
    THEN Append(out, [kind |-> "warn",
                      s |-> Yellow(<<message, " ", "\"">> \o e.path \o <<"\"">>)])
    ELSE out

\* main.rs:100-115: one iteration over a capture of the name
NameCaptureStep(st, e, m) ==
    LET prefixed == IF st.first_capture /\ e.parent # NoneOpt
                    THEN st.buf \o e.parent[1] \o <<"/">>
                    ELSE st.buf
    IN  [first_capture |-> FALSE,
         buf |-> prefixed \o Slice(e.name, st.last_index, m[1])
                          \o Highlighted(Slice(e.name, m[1], m[2])),
         last_index |-> m[2]]

RECURSIVE NameCapturesLoop(_, _, _)
NameCapturesLoop(st, e, caps) ==
    IF caps = <<>> THEN st
    ELSE NameCapturesLoop(NameCaptureStep(st, e, Head(caps)), e, Tail(caps))

\* a name without a match is displayed without highlighting
NameDisplay_Unhighlighted(st, e) ==
    [tag |-> "ok", display_path |-> st.buf \o SliceFrom(e.name, st.last_index),
     message |-> ""]

\* main.rs:118-123: the display path of a name, or no match
NameDisplay(st, e) ==
    IF st.first_capture
    THEN [tag |-> "skip_name", display_path |-> <<>>, message |-> ""]
    ELSE [tag |-> "ok", display_path |-> st.buf \o SliceFrom(e.name, st.last_index),
          message |-> ""]

\* main.rs:83-125
NameStage(a, e) ==
    IF a.name = NoneOpt
    THEN [tag |-> "ok", display_path |-> e.path, message |-> ""]
    ELSE IF e.name_kind = "none"
    THEN [tag |-> "warn_name", display_path |-> <<>>, message |-> "Could not retrieve name"]
    ELSE IF e.name_kind = "bad"
    THEN [tag |-> "warn_name", display_path |-> <<>>, message |-> "Could not interpret name"]
    ELSE NameDisplay(
             NameCapturesLoop([first_capture |-> TRUE, buf |-> <<>>, last_index |-> 0],
                              e, captures_iter(a.name[1], e.name)),
             e)

\* last_index is left at the start of the capture
LineCaptureStep_Rescan(st, line, line_index, m) ==
    LET labelled == IF st.first_capture
                    THEN st.buf \o <<"\t">> \o Bold(<<ToString(line_index + 1)>>)
                                \o Bold(<<":", " ">>)
                    ELSE st.buf
    IN  [first_capture |-> FALSE,
         buf |-> labelled \o Dimmed(Slice(line, st.last_index, m[1]))
                          \o Highlighted(Slice(line, m[1], m[2])),
         last_index |-> m[1]]

\* the label is the 0-based index of the line
LineCaptureStep_ZeroBased(st, line, line_index, m) ==
    LET labelled == IF st.first_capture
                    THEN st.buf \o <<"\t">> \o Bold(<<ToString(line_index)>>)
                                \o Bold(<<":", " ">>)
                    ELSE st.buf
    IN  [first_capture |-> FALSE,
         buf |-> labelled \o Dimmed(Slice(line, st.last_index, m[1]))
                          \o Highlighted(Slice(line, m[1], m[2])),
         last_index |-> m[2]]

\* main.rs:152-168: one iteration over a capture of a line
LineCaptureStep(st, line, line_index, m) ==
    LET labelled == IF st.first_capture
                    THEN st.buf \o <<"\t">> \o Bold(<<ToString(line_index + 1)>>)
                                \o Bold(<<":", " ">>)
                    ELSE st.buf
    IN  [first_capture |-> FALSE,
         buf |-> labelled \o Dimmed(Slice(line, st.last_index, m[1]))
                          \o Highlighted(Slice(line, m[1], m[2])),
         last_index |-> m[2]]

RECURSIVE LineCapturesLoop(_, _, _, _)
LineCapturesLoop(st, line, line_index, caps) ==
    IF caps = <<>> THEN st
    ELSE LineCapturesLoop(LineCaptureStep(st, line, line_index, Head(caps)),
                          line, line_index, Tail(caps))

\* main.rs:147-176: one iteration over a line of the text
LineStep(ts, p, line, line_index) ==
    LET caps == captures_iter(p, line)
        st == LineCapturesLoop([first_capture |-> TRUE, buf |-> <<>>, last_index |-> 0],
                               line, line_index, caps)
    IN  IF st.first_capture
        THEN ts
        ELSE [line_matched_flag |-> TRUE,
              buf |-> Append(ts.buf, st.buf \o Dimmed(SliceFrom(line, st.last_index)))]

RECURSIVE LinesLoop(_, _, _, _)
LinesLoop(ts, p, ls, line_index) ==
    IF line_index >= Len(ls) THEN ts
    ELSE LinesLoop(LineStep(ts, p, ls[line_index + 1], line_index), p, ls, line_index + 1)

\* a text without a matching line is kept
TextDisplay_KeepUnmatched(ts) == [tag |-> "ok", text_lines |-> ts.buf, message |-> ""]

\* main.rs:179-182
TextDisplay(ts) ==
    IF ~ts.line_matched_flag
    THEN [tag |-> "skip_text", text_lines |-> <<>>, message |-> ""]
    ELSE [tag |-> "ok", text_lines |-> ts.buf, message |-> ""]

\* a directory is passed on with no text lines
TextStage_DirectoryKept(a, e) ==
    IF a.text = NoneOpt \/ is_dir(e)
    THEN [tag |-> "ok", text_lines |-> <<>>, message |-> ""]
    ELSE IF e.content_kind = "read_err"
    THEN [tag |-> "warn_read", text_lines |-> <<>>, message |-> "Could not read"]
    ELSE IF e.content_kind = "decode_err"
    THEN [tag |-> "warn_decode", text_lines |-> <<>>, message |-> "Could not decode"]
    ELSE TextDisplay(LinesLoop([line_matched_flag |-> FALSE, buf |-> <<>>],
                               a.text[1], lines(e.content), 0))

\* main.rs:128-184
TextStage(a, e) ==
    IF a.text = NoneOpt
    THEN [tag |-> "ok", text_lines |-> <<>>, message |-> ""]
    ELSE IF is_dir(e)
    THEN [tag |-> "skip_dir", text_lines |-> <<>>, message |-> ""]
    ELSE IF e.content_kind = "read_err"
    THEN [tag |-> "warn_read", text_lines |-> <<>>, message |-> "Could not read"]
    ELSE IF e.content_kind = "decode_err"
    THEN [tag |-> "warn_decode", text_lines |-> <<>>, message |-> "Could not decode"]
    ELSE TextDisplay(LinesLoop([line_matched_flag |-> FALSE, buf |-> <<>>],
                               a.text[1], lines(e.content), 0))

\* the list is assigned the display path
ResultsDisplay_Overwrite(a, list, out, display_path, text_lines) ==
    LET out1 == IF a.list THEN out ELSE Append(out, [kind |-> "path", s |-> display_path])
    IN  [verdict |-> "recorded",
         entries_list |-> IF a.list THEN <<display_path>> ELSE list,
         stdout |-> IF text_lines # <<>>
                    THEN Append(out1, [kind |-> "text", s |-> Join(text_lines, "\n")])
                    ELSE out1]

\* the display path is put at the front of the list
ResultsDisplay_Prepend(a, list, out, display_path, text_lines) ==
    LET out1 == IF a.list THEN out ELSE Append(out, [kind |-> "path", s |-> display_path])
    IN  [verdict |-> "recorded",
         entries_list |-> IF a.list THEN <<display_path>> \o list ELSE list,
         stdout |-> IF text_lines # <<>>
                    THEN Append(out1, [kind |-> "text", s |-> Join(text_lines, "\n")])
                    ELSE out1]

\* main.rs:186-194
ResultsDisplay(a, list, out, display_path, text_lines) ==
    LET out1 == IF a.list THEN out ELSE Append(out, [kind |-> "path", s |-> display_path])
    IN  [verdict |-> "recorded",
         entries_list |-> IF a.list THEN Append(list, display_path) ELSE list,
         stdout |-> IF text_lines # <<>>
                    THEN Append(out1, [kind |-> "text", s |-> Join(text_lines, "\n")])
                    ELSE out1]

\* the loop body does not reach the results display
Continued(a, list, out, tag, message, e) ==
    [verdict |-> tag, entries_list |-> list,
     stdout |-> IF message = "" THEN out ELSE Warned(a, out, message, e)]

\* main.rs:73-194, for an Ok item
LoopBodyResult(a, e, list, out) ==
    IF OriginSkipped(a, e) THEN Continued(a, list, out, "skip_origin", "", e)
    ELSE IF TypeFiltered(a, e) THEN Continued(a, list, out, "skip_type", "", e)
    ELSE LET nm == NameStage(a, e)
         IN  IF nm.tag # "ok" THEN Continued(a, list, out, nm.tag, nm.message, e)
             ELSE LET tx == TextStage(a, e)
                  IN  IF tx.tag # "ok"
                      THEN Continued(a, list, out, tx.tag, tx.message, e)
                      ELSE ResultsDisplay(a, list, out, nm.display_path, tx.text_lines)

(***************************************************************************)
(* The inputs: the command line, as clap accepts it (args.rs), and the     *)
(* filesystem below the origin.                                            *)
(***************************************************************************)
PatA == Pattern(<<Atom("a", FALSE)>>)

PatAB == Pattern(<<Atom("a", FALSE), Atom("b", FALSE)>>)

PatAStar == Pattern(<<Atom("a", TRUE)>>)

PatAStarB == Pattern(<<Atom("a", TRUE), Atom("b", FALSE)>>)

PatEmpty == Pattern(<<>>)

\* the origin "." (a directory), the origin "a" (a file), and an origin that
\* does not exist
OriginDir == EntryOf(<<".">>, Some(<<>>), "none", <<>>, "dir", "read_err", <<>>)

OriginFile == EntryOf(<<"a">>, Some(<<>>), "str", <<"a">>, "file", "ok", <<"b", "\n", "a">>)

OriginMissing == EntryOf(<<"x">>, Some(<<>>), "str", <<"x">>, "missing", "read_err", <<>>)

Origins == {OriginDir, OriginFile, OriginMissing}

\* args.rs:17-35: each group admits one of its arguments: files or directories,
\* directories or text, text or list
GroupsRespected(a) ==
    /\ ~(a.files /\ a.directories)
    /\ ~(a.directories /\ a.text # NoneOpt)
    /\ ~(a.text # NoneOpt /\ a.list)

ArgumentsOver(origins, names, texts) ==
    {a \in [origin : origins, recursive : BOOLEAN, canonicalize : BOOLEAN,
            files : BOOLEAN, directories : BOOLEAN, ignore_case : BOOLEAN,
            name : names, text : texts, list : BOOLEAN, warnings : BOOLEAN] :
        GroupsRespected(a)}

\* a filesystem entry below the origin, in the directory sub of it
Below(sub, name_kind, name, kind, content_kind, content) ==
    [sub |-> sub, name_kind |-> name_kind, name |-> name, kind |-> kind,
     content_kind |-> content_kind, content |-> content]

File(name, content) == Below(<<>>, "str", name, "file", "ok", content)

Dir(name) == Below(<<>>, "str", name, "dir", "read_err", <<>>)

\* a tree with one entry for every way through the loop body
Tree ==
    { File(<<"a">>, <<"b", "\n", "a", "\n">>),
      File(<<"a", "b">>, <<"b", "\n">>),
      File(<<"a", "a">>, <<>>),
      File(<<"b">>, <<"a", "\n", "A">>),
      Below(<<>>, "str", <<"b", "a">>, "file", "read_err", <<>>),
      Below(<<>>, "str", <<"a", "A">>, "file", "decode_err", <<>>),
      Below(<<>>, "bad", <<>>, "file", "ok", <<"a">>),
      Below(<<>>, "str", <<"b", "b">>, "other", "read_err", <<>>),
      Below(<<>>, "none", <<>>, "err", "read_err", <<>>),
      Dir(<<"A">>),
      Dir(<<"A", "a">>),
      Below(<<"/", "A">>, "str", <<"a">>, "file", "ok", <<"a", "a">>) }

\* every short name and every short content
RenderTree ==
    {File(name, <<"a">>) : name \in SeqsUpTo(Letters, MaxNameLen) \ {<<>>}}
    \cup {File(<<"a">>, content) : content \in SeqsUpTo(Letters \cup {"\n"}, MaxTextLen)}
    \cup {Dir(<<"a">>), Below(<<>>, "none", <<>>, "err", "read_err", <<>>)}

(***************************************************************************)
(* main                                                                    *)
(***************************************************************************)
\* main.rs:20, 21
Failed(message) ==
    /\ stdout' = Append(stdout, [kind |-> "fail", s |-> Red(message)])
    /\ pc' = "failed"
    /\ UNCHANGED <<args, walker, entry, verdict, entries_list, fs>>

\* main.rs:39
FailMissing ==
    /\ pc = "start"
    /\ args.origin.kind = "missing"
    /\ Failed(<<"\"">> \o args.origin.path \o <<"\"", " does not exist">>)

\* main.rs:42-49: canonicalize() fails
FailCanonicalize ==
    /\ pc = "start"
    /\ args.origin.kind # "missing"
    /\ args.canonicalize
    /\ Failed(<<"Could not canonicalize ", "\"">> \o args.origin.path \o <<"\"">>)

\* main.rs:50-63: Regex::new fails on the pattern prefixed by "(?i)"
FailIgnoreCase ==
    /\ pc = "start"
    /\ args.origin.kind # "missing"
    /\ args.ignore_case
    /\ \/ /\ args.name # NoneOpt
          /\ Failed(<<"Could not make name pattern case-insensitive">>)
       \/ /\ args.text # NoneOpt
          /\ Failed(<<"Could not make text pattern case-insensitive">>)

\* Path::canonicalize, the working directory being "/w"
Canonicalized(o) ==
    IF o.path = <<".">>
    THEN [o EXCEPT !.path = <<"/", "w">>, !.parent = Some(<<"/">>),
                   !.name_kind = "str", !.name = <<"w">>]
    ELSE [o EXCEPT !.path = <<"/", "w", "/">> \o o.path, !.parent = Some(<<"/", "w">>)]

IgnoringCase(opt) == IF opt = NoneOpt THEN opt ELSE Some(CaseInsensitive(opt[1]))

\* main.rs:42-63
Transformed(a) ==
    LET a1 == IF a.canonicalize THEN [a EXCEPT !.origin = Canonicalized(a.origin)] ELSE a
    IN  IF a1.ignore_case
        THEN [a1 EXCEPT !.name = IgnoringCase(a1.name), !.text = IgnoringCase(a1.text)]
        ELSE a1

\* the item the walker yields for an entry below the origin
Item(a, b) ==
    IF b.kind = "err" THEN ErrItem
    ELSE Child(a.origin.path \o b.sub, b.name_kind, b.name, b.kind, b.content_kind, b.content)

\* main.rs:66, 67: the entries of the tree that belong to the walk: those below
\* an origin that is a directory, those of its subdirectories only in a
\* recursive walk
Walked(a, b) == a.origin.kind = "dir" /\ (a.recursive \/ b.sub = <<>>)

\* main.rs:38-70
Transform ==
    /\ pc = "start"
    /\ args.origin.kind # "missing"
    /\ args' = Transformed(args)
    /\ walker' = [yielded |-> {}, left |-> fs.length + 1]
    /\ pc' = "walk"
    /\ UNCHANGED <<entry, verdict, entries_list, stdout, fs>>

\* the tree below the origin
TreeOf(f) == IF f.tree = "Tree" THEN Tree ELSE RenderTree

\* the walker yields an item once, the origin first and a directory before
\* its entries
Yieldable(item) ==
    /\ item \notin walker.yielded
    /\ walker.left > 0
    /\ \/ item = args.origin
       \/ /\ args.origin \in walker.yielded
          /\ \/ item.kind = "err"
             \/ \E d \in walker.yielded : item.parent = Some(d.path)

\* the items the walker can yield next
Pending ==
    IF walker.left = 0 THEN {}
    ELSE IF args.origin \notin walker.yielded THEN {args.origin}
    ELSE {item \in {Item(args, b) : b \in {b \in TreeOf(fs) : Walked(args, b)}} :
             Yieldable(item)}

\* main.rs:71, 72: the walker yields an entry
WalkNext ==
    /\ pc = "walk"
    /\ \E item \in Pending :
        /\ item.kind # "err"
        /\ entry' = item
        /\ walker' = [yielded |-> walker.yielded \cup {item}, left |-> walker.left - 1]
    /\ pc' = "body"
    /\ UNCHANGED <<args, verdict, entries_list, stdout, fs>>

\* main.rs:71, 72: the walker yields an error, which the loop passes over
WalkErr ==
    /\ pc = "walk"
    /\ ErrItem \in Pending
    /\ walker' = [yielded |-> walker.yielded \cup {ErrItem}, left |-> walker.left - 1]
    /\ verdict' = "walk_err"
    /\ UNCHANGED <<args, pc, entry, entries_list, stdout, fs>>

\* main.rs:73-195
LoopBody ==
    /\ pc = "body"
    /\ LET r == LoopBodyResult(args, entry, entries_list, stdout)
       IN  /\ verdict' = r.verdict
           /\ entries_list' = r.entries_list
           /\ stdout' = r.stdout
    /\ pc' = "walk"
    /\ UNCHANGED <<args, walker, entry, fs>>

\* main.rs:198-201
ListedEntries(list, out) ==
    IF Len(list) > 0 THEN Append(out, [kind |-> "list", s |-> Join(list, " ")]) ELSE out

\* main.rs:71, 198-202: the walk is over
ListedEntriesDisplay ==
    /\ pc = "walk"
    /\ Pending = {}
    /\ stdout' = ListedEntries(entries_list, stdout)
    /\ pc' = "done"
    /\ UNCHANGED <<args, walker, entry, verdict, entries_list, fs>>

InitWith(arguments, tree, length) ==
    /\ args \in arguments
    /\ fs = [tree |-> tree, length |-> length]
    /\ pc = "start"
    /\ walker = [yielded |-> {}, left |-> 0]
    /\ entry = ErrItem
    /\ verdict = "none"
    /\ entries_list = <<>>
    /\ stdout = <<>>

\* walks of up to MaxEntries entries of the tree
InitWalk == InitWith(ArgumentsOver(Origins, {NoneOpt, Some(PatA)}, {NoneOpt, Some(PatA)}),
                 "Tree", MaxEntries)

RenderPatterns == {NoneOpt, Some(PatA), Some(PatAB), Some(PatAStar), Some(PatAStarB),
                   Some(PatEmpty)}

\* walks of one entry, with every short name, content and pattern
InitRender ==
    InitWith({a \in ArgumentsOver({OriginDir}, RenderPatterns, RenderPatterns) :
                  /\ ~a.recursive /\ ~a.canonicalize /\ ~a.files /\ ~a.directories
                  /\ ~a.list /\ ~a.warnings},
             "RenderTree", 1)

Init == InitWalk \/ InitRender

Next ==
    \/ FailMissing
    \/ FailCanonicalize
    \/ FailIgnoreCase
    \/ Transform
    \/ WalkNext
    \/ WalkErr
    \/ LoopBody
    \/ ListedEntriesDisplay

Spec == Init /\ [][Next]_vars

(***************************************************************************)
(* What the properties below speak of.                                     *)
(***************************************************************************)
\* a string with its styling removed
Plain(s) == SelectSeq(s, LAMBDA tok : tok \notin Markers)

\* what a step prints
NewUnits == SubSeq(stdout', Len(stdout) + 1, Len(stdout'))

\* what a step adds to the list
NewListed == SubSeq(entries_list', Len(entries_list) + 1, Len(entries_list'))

Grows(old, new) == Len(old) <= Len(new) /\ SubSeq(new, 1, Len(old)) = old

OfKind(units, kind) == SelectSeq(units, LAMBDA u : u.kind = kind)

RECURSIVE Strings(_)
Strings(units) == IF units = <<>> THEN <<>> ELSE <<Head(units).s>> \o Strings(Tail(units))

\* a step in which the loop body runs
BodyStep == pc = "body" /\ pc' = "walk"

\* the step prints nothing and lists nothing
NoOutput == stdout' = stdout /\ entries_list' = entries_list

Matches(p, s) == captures_iter(p, s) # <<>>

\* the 1-based numbers of the lines of ls the pattern matches, from number n on
RECURSIVE MatchingLines(_, _, _)
MatchingLines(p, ls, n) ==
    IF n > Len(ls) THEN <<>>
    ELSE (IF Matches(p, ls[n]) THEN <<n>> ELSE <<>>) \o MatchingLines(p, ls, n + 1)

\* the rendered lines a text unit holds, one per line of the unit
RenderedLines(units) == IF units = <<>> THEN <<>> ELSE lines(units[1].s)

\* the entry is past the origin check and the type filter
Classified == ~OriginSkipped(args, entry) /\ ~TypeFiltered(args, entry)

\* the entry is past the name stage
NameMatched ==
    /\ Classified
    /\ args.name # NoneOpt => entry.name_kind = "str" /\ Matches(args.name[1], entry.name)

\* the entry is a decodable file that the text stage searches
TextSearched ==
    /\ NameMatched
    /\ args.text # NoneOpt
    /\ ~is_dir(entry)
    /\ entry.content_kind = "ok"

\* the display path a step prints or lists
Displayed == Strings(OfKind(NewUnits, "path")) \o NewListed

\* the parent-path prefix of a display path built from the name
ParentPrefix(e) == IF e.parent = NoneOpt THEN <<>> ELSE e.parent[1] \o <<"/">>

\* the label of a rendered line
LineLabel(n) == <<"\t">> \o Bold(<<ToString(n)>>) \o Bold(<<":", " ">>)

\* a display path and a rendered line without their prefix
NameSpans(d, e) == SubSeq(d, Len(ParentPrefix(e)) + 1, Len(d))

LineSpans(r) == SubSeq(r, Len(LineLabel(1)) + 1, Len(r))

(***************************************************************************)
(* C1. Highlighting is a pure re-partition: the spans of a display path    *)
(* built from a matched name, without the parent-path prefix and the       *)
(* styling, are the name, and the spans of each rendered line, without the *)
(* line label and the styling, are the line it renders, character for      *)
(* character, for any number of matches, empty and adjacent ones included. *)
(***************************************************************************)
C1_Repartition ==
    [][BodyStep =>
        /\ args.name # NoneOpt =>
              \A k \in 1..Len(Displayed) :
                  Plain(NameSpans(Displayed[k], entry)) = entry.name
        /\ args.text # NoneOpt /\ entry.content_kind = "ok" =>
              LET rendered == RenderedLines(OfKind(NewUnits, "text"))
                  ls == lines(entry.content)
                  numbers == MatchingLines(args.text[1], ls, 1)
              IN  \A k \in 1..Len(rendered) :
                      /\ k <= Len(numbers)
                      /\ Plain(LineSpans(rendered[k])) = ls[numbers[k]]
      ]_vars

\* a name and a line rendered with an empty match, a match and a remainder
C1_Witness ==
    /\ pc = "walk"
    /\ verdict = "recorded"
    /\ args.name = Some(PatA)
    /\ args.text = Some(PatAStar)
    /\ entry.name = <<"a">>
    /\ entry.content = <<"b", "a", "b">>
    /\ Len(stdout) = 2

(***************************************************************************)
(* C2. An entry whose base name the name pattern matches nowhere produces  *)
(* no output: the loop body prints nothing for it, neither its display     *)
(* path nor a line of its text, and adds nothing to the list, whatever the *)
(* text pattern matches.                                                   *)
(***************************************************************************)
C2_NameDrop ==
    [][BodyStep /\ args.name # NoneOpt /\ entry.name_kind = "str"
                /\ ~Matches(args.name[1], entry.name)
        => NoOutput]_vars

\* a file named "b" whose text the text pattern matches, dropped for its name
C2_Witness ==
    /\ pc = "walk"
    /\ verdict = "skip_name"
    /\ entry.name = <<"b">>
    /\ args.text # NoneOpt
    /\ entry.content_kind = "ok"
    /\ MatchingLines(args.text[1], lines(entry.content), 1) # <<>>

(***************************************************************************)
(* C3. A file none of whose lines the configured text pattern matches (the *)
(* empty file has no lines) produces no output: the loop body prints       *)
(* neither its display path nor a rendered line and adds nothing to the    *)
(* list, in streaming and in list mode, even if the name pattern matched   *)
(* its name.                                                               *)
(***************************************************************************)
C3_TextDrop ==
    [][BodyStep /\ is_file(entry) /\ args.text # NoneOpt /\ entry.content_kind = "ok"
                /\ MatchingLines(args.text[1], lines(entry.content), 1) = <<>>
        => /\ entries_list' = entries_list
           /\ OfKind(NewUnits, "path") = <<>>
           /\ OfKind(NewUnits, "text") = <<>>]_vars

\* the empty file "aa", whose name matched, dropped for its text
C3_Witness ==
    /\ pc = "walk"
    /\ verdict = "skip_text"
    /\ args.name # NoneOpt
    /\ entry.name = <<"a", "a">>
    /\ entry.content = <<>>

\* the line label without its styling, and the number of the line it names
PlainLabel(n) == Plain(LineLabel(n))

(***************************************************************************)
(* C4. For a readable, decodable file and a configured text pattern, the   *)
(* rendered lines are exactly the lines the pattern matches: one rendered  *)
(* line per matching line, none for another line, each labelled with the   *)
(* 1-based number of its line in the file, in increasing order.            *)
(***************************************************************************)
C4_RenderedLines ==
    [][BodyStep /\ TextSearched =>
        LET rendered == RenderedLines(OfKind(NewUnits, "text"))
            numbers == MatchingLines(args.text[1], lines(entry.content), 1)
        IN  /\ Len(OfKind(NewUnits, "text")) <= 1
            /\ Len(rendered) = Len(numbers)
            /\ \A k \in 1..Len(rendered) :
                   SubSeq(Plain(rendered[k]), 1, Len(PlainLabel(numbers[k])))
                       = PlainLabel(numbers[k])
      ]_vars

\* the file "a": its first line does not match and its second line does
C4_Witness ==
    /\ pc = "walk"
    /\ verdict = "recorded"
    /\ args.text = Some(PatA)
    /\ entry.content = <<"b", "\n", "a", "\n">>
    /\ stdout # <<>>
    /\ stdout[Len(stdout)].kind = "text"

(***************************************************************************)
(* C5. The entry whose path is the origin, the origin being a directory,   *)
(* is excluded: the loop body prints nothing for it and adds nothing to    *)
(* the list, whatever the type flags, the patterns and the display mode.   *)
(***************************************************************************)
C5_OriginExcluded ==
    [][BodyStep /\ args.origin.kind = "dir" /\ entry.path = args.origin.path
        => NoOutput]_vars

\* the canonicalized origin directory, which the flags and the name pattern admit
C5_Witness ==
    /\ pc = "walk"
    /\ verdict = "skip_origin"
    /\ args.directories
    /\ args.canonicalize
    /\ args.name = NoneOpt
    /\ entry.kind = "dir"

\* what the loop body would do with the entry in the other display mode
OtherMode ==
    LoopBodyResult([args EXCEPT !.list = ~args.list], entry, entries_list, stdout)

OtherUnits == SubSeq(OtherMode.stdout, Len(stdout) + 1, Len(OtherMode.stdout))

OtherListed ==
    SubSeq(OtherMode.entries_list, Len(entries_list) + 1, Len(OtherMode.entries_list))

(***************************************************************************)
(* C6. List mode and streaming mode match the same entries: the display    *)
(* paths the loop body prints for an entry in streaming mode are the       *)
(* display paths it adds to the list for that entry in list mode, with     *)
(* the same options otherwise; streaming mode lists nothing, list mode     *)
(* prints no path, and what else is printed is the same.                   *)
(***************************************************************************)
C6_SameMatches ==
    [][BodyStep =>
        /\ Displayed = Strings(OfKind(OtherUnits, "path")) \o OtherListed
        /\ args.list => OfKind(NewUnits, "path") = <<>> /\ OtherListed = <<>>
        /\ ~args.list => NewListed = <<>> /\ OfKind(OtherUnits, "path") = <<>>
        /\ SelectSeq(NewUnits, LAMBDA u : u.kind # "path")
               = SelectSeq(OtherUnits, LAMBDA u : u.kind # "path")
      ]_vars

\* a list-mode walk that dropped the file "b" for its name, then listed an entry
C6_Witness ==
    /\ pc = "walk"
    /\ args.list
    /\ args.name # NoneOpt
    /\ verdict = "recorded"
    /\ Len(entries_list) = 1
    /\ \E y \in walker.yielded : y.name = <<"b">> /\ y # entry

(***************************************************************************)
(* C7. In a list-mode run no display path is printed while the walk lasts: *)
(* the loop body adds the display path of the entry at the end of the      *)
(* list, so that the list is in the order of the walk; when the walk is    *)
(* over, a list that is not empty is printed as one unit, its paths joined *)
(* by a single space, and nothing else prints a list.                      *)
(***************************************************************************)
C7_ListMode ==
    [][args.list =>
        /\ OfKind(NewUnits, "path") = <<>>
        /\ Grows(entries_list, entries_list')
        /\ BodyStep /\ verdict' = "recorded" =>
              /\ Len(NewListed) = 1
              /\ Plain(NewListed[1]) \in {entry.path, ParentPrefix(entry) \o entry.name}
        /\ ~(BodyStep /\ verdict' = "recorded") => NewListed = <<>>
        /\ pc = "walk" /\ pc' = "done" /\ entries_list # <<>> =>
              NewUnits = <<[kind |-> "list", s |-> Join(entries_list, " ")]>>
        /\ ~(pc = "walk" /\ pc' = "done" /\ entries_list # <<>>) =>
              OfKind(NewUnits, "list") = <<>>
      ]_vars

\* the end of a list-mode walk that listed two entries
C7_Witness ==
    /\ pc = "done"
    /\ args.list
    /\ Len(entries_list) = 2
    /\ entries_list[1] # entries_list[2]
    /\ stdout # <<>>
    /\ stdout[Len(stdout)] = [kind |-> "list", s |-> Join(entries_list, " ")]

\* the loop body fails on the name of the entry, or on its content after its
\* name matched
NameFails == Classified /\ args.name # NoneOpt /\ entry.name_kind # "str"

TextFails ==
    /\ NameMatched
    /\ args.text # NoneOpt
    /\ ~is_dir(entry)
    /\ entry.content_kind \in {"read_err", "decode_err"}

(***************************************************************************)
(* C8. A recoverable error of an entry (a name that is not text, a file    *)
(* that cannot be read, a content that is not text) skips that entry: the  *)
(* loop body prints no display path and no line of it and lists nothing,   *)
(* also when its name matched before the read or the decoding failed; it   *)
(* prints one warning, naming the entry, if warnings are enabled and       *)
(* nothing otherwise; and the walk goes on with the next entry.            *)
(***************************************************************************)
C8_RecoverableError ==
    [][BodyStep /\ (NameFails \/ TextFails) =>
        /\ entries_list' = entries_list
        /\ ~args.warnings => stdout' = stdout
        /\ args.warnings =>
              /\ Len(NewUnits) = 1
              /\ NewUnits[1].kind = "warn"
              /\ \E i \in 1..Len(NewUnits[1].s) :
                     SubSeq(NewUnits[1].s, i, i + Len(entry.path) - 1) = entry.path
        /\ pc' = "walk"
        /\ walker' = walker
      ]_vars

\* a walk that warned of an entry whose name had matched, then printed the next
C8_Witness ==
    /\ pc = "walk"
    /\ args.warnings
    /\ args.name # NoneOpt
    /\ args.text # NoneOpt
    /\ Len(stdout) = 3
    /\ stdout[1].kind = "warn"
    /\ stdout[2].kind = "path"
    /\ verdict = "recorded"

\* the type filter as a function of the entry and the flags
TypeExcluded(a, e) ==
    IF ~a.files /\ ~a.directories THEN FALSE
    ELSE \/ is_file(e) /\ ~a.files
         \/ is_dir(e) /\ ~a.directories

(***************************************************************************)
(* C9. The type filter: with neither flag every file and every directory   *)
(* passes; otherwise a file is excluded when files is false and a          *)
(* directory when directories is false; so that with files only files      *)
(* pass and with directories only directories pass.                        *)
(***************************************************************************)
C9_TypeFilter ==
    [][BodyStep /\ ~OriginSkipped(args, entry) =>
        /\ verdict' = "skip_type" <=> TypeExcluded(args, entry)
        /\ args.files /\ verdict' # "skip_type" => is_file(entry)
        /\ args.directories /\ verdict' # "skip_type" => is_dir(entry)
      ]_vars

\* the part of C9 that the code satisfies: the filter on files and directories
C9_FilesAndDirectories ==
    [][BodyStep /\ ~OriginSkipped(args, entry) =>
        /\ verdict' = "skip_type" <=> TypeExcluded(args, entry)
        /\ args.files /\ verdict' # "skip_type" => ~is_dir(entry)
        /\ args.directories /\ verdict' # "skip_type" => ~is_file(entry)
      ]_vars

(***************************************************************************)
(* C10, as claimed. With a text pattern configured, a directory that is    *)
(* past the type filter and the name stage is recorded with its display    *)
(* path and no rendered line, as it is without a text pattern.             *)
(***************************************************************************)
C10_DirectoryRecorded ==
    [][BodyStep /\ NameMatched /\ is_dir(entry) /\ args.text # NoneOpt =>
        /\ verdict' = "recorded"
        /\ Len(Displayed) = 1
        /\ OfKind(NewUnits, "text") = <<>>
      ]_vars

(***************************************************************************)
(* C10, amended. With a text pattern configured, a directory that is past  *)
(* the type filter and the name stage is dropped by the text stage: it     *)
(* produces no output.  Without a text pattern it is recorded with its     *)
(* display path and no rendered line.                                      *)
(***************************************************************************)
C10_DirectoryDropped ==
    [][BodyStep /\ NameMatched /\ is_dir(entry) =>
        /\ args.text # NoneOpt => verdict' = "skip_dir" /\ NoOutput
        /\ args.text = NoneOpt =>
              /\ verdict' = "recorded"
              /\ Len(Displayed) = 1
              /\ Len(NewUnits) + Len(NewListed) = 1
      ]_vars

\* the directory "Aa", whose name matched, dropped by the text stage
C10_Witness ==
    /\ pc = "walk"
    /\ verdict = "skip_dir"
    /\ args.name # NoneOpt
    /\ args.text # NoneOpt
    /\ entry.kind = "dir"
    /\ entry.name = <<"A", "a">>

=============================================================================
